---------------------------- MODULE Spec2Model ----------------------------
(***************************************************************************)
(* liberror: canonical type names (src/src/type_name.rs) and the AnyError  *)
(* cause-chain capture with its Display and serde forms (src/src/lib.rs).  *)
(*                                                                         *)
(* A Rust string is the sequence of its UTF-8 bytes: an ASCII character is  *)
(* the one-character string of it, and the two bytes of a non-ASCII        *)
(* character are "xC3" and "x89". Byte offsets are 0-based as in the       *)
(* source.                                                                 *)
(***************************************************************************)
EXTENDS Integers, Sequences, FiniteSets, TLC

VARIABLES
    ast,        \* the descriptor handed to the canonicalizer, as a tree
    input,      \* its text, as std::any::type_name would print it
    output,     \* process_type_name(input)
    output2,    \* process_type_name(output)
    pc,         \* position of the canonicalization run
    chain,      \* the native cause chain, outermost error first
    err,        \* Option<AnyError>: the converted chain
    shown,      \* Option<String>: format!("{}", err)
    wire,       \* Option<Json>: serde encoding of err
    payload,    \* Option<Json>: a payload handed to the decoder
    decoded,    \* the decoder's result on payload
    epc         \* position of the error-chain run

vars == <<ast, input, output, output2, pc,
          chain, err, shown, wire, payload, decoded, epc>>

tnVars  == <<ast, input, output, output2, pc>>
errVars == <<chain, err, shown, wire, payload, decoded, epc>>

-----------------------------------------------------------------------------
(* Bounds of the model.                                                    *)

MaxDepth == 2       \* nesting depth of the generated well-formed descriptors
MaxTokens == 3      \* tokens of a generated malformed descriptor
MaxChain == 3       \* length of the generated native cause chains

-----------------------------------------------------------------------------
(* String literals.                                                        *)

Empty == << >>
SP == <<" ">>
LBRACK == <<"[">>
RBRACK == <<"]">>
SEMI == <<";">>
AMP == <<"&">>
LT == <<"<">>
GT == <<">">>
COMMA == <<",">>
LPAREN == <<"(">>
RPAREN == <<")">>
COLON2 == <<":", ":">>
COMMA_SP == <<",", " ">>
COLON_SP == <<":", " ">>
PLUS_SEP == <<" ", "+", " ">>
DYN == <<"d", "y", "n", " ">>
PTR_CONST == <<"*", "c", "o", "n", "s", "t", " ">>
PTR_MUT == <<"*", "m", "u", "t", " ">>
STD == <<"s", "t", "d", ":", ":">>
CORE == <<"c", "o", "r", "e", ":", ":">>
ALLOC == <<"a", "l", "l", "o", "c", ":", ":">>
STD_ERROR_ERROR == STD \o <<"e", "r", "r", "o", "r">> \o COLON2 \o <<"E", "r", "r", "o", "r">>
CORE_ERROR_ERROR == CORE \o <<"e", "r", "r", "o", "r">> \o COLON2 \o <<"E", "r", "r", "o", "r">>
CORE_FMT_DEBUG == CORE \o <<"f", "m", "t">> \o COLON2 \o <<"D", "e", "b", "u", "g">>
CORE_FMT_DISPLAY == CORE \o <<"f", "m", "t">> \o COLON2 \o <<"D", "i", "s", "p", "l", "a", "y">>
CORE_ANY_ANY == CORE \o <<"a", "n", "y">> \o COLON2 \o <<"A", "n", "y">>
CORE_MARKER_SEND == CORE \o <<"m", "a", "r", "k", "e", "r">> \o COLON2 \o <<"S", "e", "n", "d">>
CORE_CONVERT_ASREF == CORE \o <<"c", "o", "n", "v", "e", "r", "t">> \o COLON2 \o <<"A", "s", "R", "e", "f">>
CORE_RESULT_RESULT == CORE \o <<"r", "e", "s", "u", "l", "t">> \o COLON2 \o <<"R", "e", "s", "u", "l", "t">>
ALLOC_VEC_VEC == ALLOC \o <<"v", "e", "c">> \o COLON2 \o <<"V", "e", "c">>
ALLOC_STRING_STRING == ALLOC \o <<"s", "t", "r", "i", "n", "g">> \o COLON2 \o <<"S", "t", "r", "i", "n", "g">>
ALLOC_BOXED_BOX == ALLOC \o <<"b", "o", "x", "e", "d">> \o COLON2 \o <<"B", "o", "x">>
I32 == <<"i", "3", "2">>
MY_T == <<"m", "y">> \o COLON2 \o <<"T">>
\* A type of another crate whose identifier is not ASCII: my::É
MY_E_ACUTE == <<"m", "y">> \o COLON2 \o <<"xC3", "x89">>
\* The bytes 0x80..0xBF, which never start a character.
ContinuationBytes == {"x89"}
ERROR_ALIAS == <<"E", "r", "r", "o", "r">>
DEBUG_ALIAS == <<"D", "e", "b", "u", "g">>
DISPLAY_ALIAS == <<"D", "i", "s", "p", "l", "a", "y">>
ANY_ALIAS == <<"A", "n", "y">>
SIZE3 == <<"3">>

-----------------------------------------------------------------------------
(* Rust str primitives used by type_name.rs.                               *)

\* A panic unwinding out of a call: no string has this element.
Panic == <<"panic">>

\* str::is_char_boundary: the start, the end, or the first byte of a character
is_char_boundary(s, i) ==
    \/ i = 0
    \/ i = Len(s)
    \/ (i < Len(s) /\ s[i + 1] \notin ContinuationBytes)

\* &s[a..b]; the callers establish a <= b <= s.len() or panic before.
Slice(s, a, b) == SubSeq(s, a + 1, b)

\* &s[a..]
SliceFrom(s, a) == SubSeq(s, a + 1, Len(s))

starts_with(s, p) == Len(s) >= Len(p) /\ SubSeq(s, 1, Len(p)) = p

ends_with(s, p) == Len(s) >= Len(p) /\ SubSeq(s, Len(s) - Len(p) + 1, Len(s)) = p

\* The byte offsets at which p occurs in s.
Occurrences(s, p) ==
    {i \in 0..(Len(s) - Len(p)) : SubSeq(s, i + 1, i + Len(p)) = p}

contains(s, p) == Occurrences(s, p) # {}

Min(S) == CHOOSE x \in S : \A y \in S : x <= y
Max(S) == CHOOSE x \in S : \A y \in S : x >= y

\* str::find / str::rfind; None is -1.
find(s, p) == IF contains(s, p) THEN Min(Occurrences(s, p)) ELSE -1
rfind(s, p) == IF contains(s, p) THEN Max(Occurrences(s, p)) ELSE -1

\* str::trim: the text from the first to the last character that is no
\* white space.
trim(s) ==
    LET keep == {i \in 1..Len(s) : s[i] # " "}
    IN  IF keep = {} THEN Empty ELSE SubSeq(s, Min(keep), Max(keep))

\* s.split(sep).last(): the piece after the last of the non-overlapping
\* matches found left to right.
RECURSIVE split_last(_, _)
split_last(s, sep) ==
    IF contains(s, sep)
    THEN split_last(SliceFrom(s, find(s, sep) + Len(sep)), sep)
    ELSE s

\* s.split(sep).nth(1), for an s that contains sep: the second piece.
split_nth1(s, sep) ==
    LET rest == SliceFrom(s, find(s, sep) + Len(sep))
    IN  IF contains(rest, sep) THEN Slice(rest, 0, find(rest, sep)) ELSE rest

\* parts.join(sep)
RECURSIVE join(_, _)
join(parts, sep) ==
    IF parts = << >> THEN Empty
    ELSE IF Len(parts) = 1 THEN parts[1]
    ELSE parts[1] \o sep \o join(Tail(parts), sep)

\* format!: the concatenation of the pieces, unless evaluating one panicked.
Fmt(pieces) ==
    IF \E i \in 1..Len(pieces) : pieces[i] = Panic THEN Panic
    ELSE join(pieces, Empty)

-----------------------------------------------------------------------------
(* type_name.rs                                                            *)

RECURSIVE process_type_name(_), parse_generics(_), process_base_type(_)

\* process_base_type (type_name.rs:77-105)
process_base_type(base_type) ==
    IF base_type = STD_ERROR_ERROR THEN ERROR_ALIAS
    ELSE IF contains(base_type, DYN)
    THEN Fmt(<<DYN, process_base_type(split_nth1(base_type, DYN))>>)
    ELSE IF base_type = CORE_FMT_DEBUG THEN DEBUG_ALIAS
    ELSE IF base_type = CORE_FMT_DISPLAY THEN DISPLAY_ALIAS
    ELSE IF base_type = CORE_ANY_ANY THEN ANY_ALIAS
    ELSE IF \/ starts_with(base_type, STD)
            \/ starts_with(base_type, CORE)
            \/ starts_with(base_type, ALLOC)
    THEN split_last(base_type, COLON2)
    ELSE base_type

\* bracket_depth of parse_generics when its loop reaches the character at
\* byte offset b (type_name.rs:50, 55-56): the '<' seen so far less the '>'
\* seen so far.
bracket_depth(generic_str, b) ==
    Cardinality({j \in 1..b : generic_str[j] = "<"})
        - Cardinality({j \in 1..b : generic_str[j] = ">"})

\* The index chars().enumerate() gives the character at byte offset b
\* (type_name.rs:53): the characters before it, which are fewer than the
\* bytes before it when one of them takes several bytes.
char_index(generic_str, b) ==
    b - Cardinality({j \in 1..b : generic_str[j] \in ContinuationBytes})

\* The indices i at which the loop pushes a param (type_name.rs:57-60).
split_points(generic_str) ==
    {char_index(generic_str, b) :
        b \in {c \in 0..(Len(generic_str) - 1) :
                 generic_str[c + 1] = "," /\ bracket_depth(generic_str, c) = 0}}

\* The k-th smallest element of a finite set of numbers.
Nth(S, k) == CHOOSE x \in S : Cardinality({y \in S : y < x}) = k - 1

\* The params vector of parse_generics before it is mapped
\* (type_name.rs:49-68), or Panic: i and current_param_start are character
\* indices used as byte offsets of generic_str.
generic_params(generic_str) ==
    LET cuts == split_points(generic_str)
        n == Cardinality(cuts)
        start(k) == IF k = 1 THEN 0 ELSE Nth(cuts, k - 1) + 1
        pushed == [k \in 1..n |->
                      trim(Slice(generic_str, start(k), Nth(cuts, k)))]
        last_param == trim(SliceFrom(generic_str, start(n + 1)))
    IN  IF \/ \E k \in 1..n :
                 \/ ~is_char_boundary(generic_str, start(k))
                 \/ ~is_char_boundary(generic_str, Nth(cuts, k))
           \/ ~is_char_boundary(generic_str, start(n + 1))
        THEN Panic
        ELSE IF last_param # Empty THEN Append(pushed, last_param) ELSE pushed

\* parse_generics (type_name.rs:48-75)
parse_generics(generic_str) ==
    LET params == generic_params(generic_str)
        mapped == [k \in 1..Len(params) |-> process_type_name(params[k])]
    IN  IF params = Panic THEN Panic
        ELSE IF \E k \in 1..Len(params) : mapped[k] = Panic THEN Panic
        ELSE join(mapped, COMMA_SP)

\* process_type_name (type_name.rs:9-46)
process_type_name(type_name) ==
    IF starts_with(type_name, LBRACK) /\ contains(type_name, SEMI)
    THEN IF find(type_name, SEMI) # -1 /\ rfind(type_name, RBRACK) # -1
         THEN LET semicolon_pos == find(type_name, SEMI)
                  bracket_pos == rfind(type_name, RBRACK)
                  element_type == trim(Slice(type_name, 1, semicolon_pos))
              IN  \* &type_name[semicolon_pos..bracket_pos] panics when the
                  \* range is reversed
                  IF semicolon_pos > bracket_pos THEN Panic
                  ELSE Fmt(<<LBRACK, process_type_name(element_type),
                             Slice(type_name, semicolon_pos, bracket_pos), RBRACK>>)
         ELSE type_name
    ELSE IF starts_with(type_name, AMP)
    THEN Fmt(<<AMP, process_type_name(SliceFrom(type_name, 1))>>)
    ELSE IF starts_with(type_name, PTR_CONST) \/ starts_with(type_name, PTR_MUT)
    THEN \* split_at(6) panics when the string is shorter than 6 bytes, or
         \* byte 6 is inside a character
         IF Len(type_name) < 6 \/ ~is_char_boundary(type_name, 6) THEN Panic
         ELSE LET pointer_type == Slice(type_name, 0, 6)
                  pointed_type == SliceFrom(type_name, 6)
              IN  Fmt(<<pointer_type, SP, process_type_name(pointed_type)>>)
    ELSE IF starts_with(type_name, DYN)
    THEN Fmt(<<DYN, process_base_type(SliceFrom(type_name, 4))>>)
    ELSE IF find(type_name, LT) # -1 /\ ends_with(type_name, GT)
    THEN LET generic_start == find(type_name, LT)
             base_type == Slice(type_name, 0, generic_start)
             generic_part == Slice(type_name, generic_start + 1, Len(type_name) - 1)
         IN  Fmt(<<process_base_type(base_type), LT,
                   parse_generics(generic_part), GT>>)
    ELSE process_base_type(type_name)

\* standardized_type_name / standardized_type_name_of (type_name.rs:1-7):
\* the canonical form of the descriptor std::any::type_name yields for T.
standardized_type_name_of(type_name_of_T) == process_type_name(type_name_of_T)

-----------------------------------------------------------------------------
(* The descriptors std::any::type_name prints, as trees, and their text.   *)

Node(kind, name, args) == [kind |-> kind, name |-> name, args |-> args]

Base(name) == Node("base", name, << >>)
Ref(t) == Node("ref", Empty, <<t>>)
Ptr(marker, t) == Node("ptr", marker, <<t>>)
Array(t, size) == Node("array", size, <<t>>)
SliceOf(t) == Node("slice", Empty, <<t>>)
Dyn(bounds) == Node("dyn", Empty, bounds)
Generic(name, args) == Node("generic", name, args)
Raw(text) == Node("raw", text, << >>)

\* The text of a descriptor: `&T`, `*const T`, `*mut T`, `[T; N]`, `[T]`,
\* `dyn A + B`, `B<a1, ..., ak>`, or a path.
RECURSIVE Render(_)
Render(t) ==
    LET sub == [k \in 1..Len(t.args) |-> Render(t.args[k])]
    IN  CASE t.kind = "base" -> t.name
          [] t.kind = "raw" -> t.name
          [] t.kind = "ref" -> AMP \o sub[1]
          [] t.kind = "ptr" -> t.name \o sub[1]
          [] t.kind = "array" -> LBRACK \o sub[1] \o SEMI \o SP \o t.name \o RBRACK
          [] t.kind = "slice" -> LBRACK \o sub[1] \o RBRACK
          [] t.kind = "dyn" -> DYN \o join(sub, PLUS_SEP)
          [] t.kind = "generic" -> t.name \o LT \o join(sub, COMMA_SP) \o GT

BaseTypes == {Base(I32), Base(MY_T), Base(MY_E_ACUTE), Base(ALLOC_STRING_STRING)}

\* Trait objects with one bound, which may stand behind a reference, a raw
\* pointer or a Box.
DynSingle ==
    {Dyn(<<Base(CORE_FMT_DEBUG)>>), Dyn(<<Base(STD_ERROR_ERROR)>>),
     Dyn(<<Generic(CORE_CONVERT_ASREF, <<Base(ALLOC_STRING_STRING)>>)>>)}

\* Trait objects with several bounds, which stand unparenthesized only as a
\* generic argument.
DynMulti == {Dyn(<<Base(CORE_FMT_DEBUG), Base(CORE_MARKER_SEND)>>)}

\* The sized descriptors of nesting depth at most n.
RECURSIVE Sized(_)
Sized(n) ==
    IF n = 0 THEN BaseTypes
    ELSE LET S == Sized(n - 1)
         IN  S
             \cup {Ref(t) : t \in S \cup DynSingle}
             \cup {Ptr(m, t) : m \in {PTR_CONST, PTR_MUT}, t \in S \cup DynSingle}
             \cup {Array(t, SIZE3) : t \in S}
             \cup {SliceOf(t) : t \in S}
             \cup {Generic(ALLOC_BOXED_BOX, <<t>>) : t \in S \cup DynSingle \cup DynMulti}
             \cup {Generic(CORE_RESULT_RESULT, <<t, u>>) : t \in S, u \in BaseTypes}

WellFormed == Sized(MaxDepth) \cup DynSingle \cup DynMulti

\* Malformed descriptors: every concatenation of at most MaxTokens tokens.
Tokens == {LBRACK, RBRACK, SEMI, AMP, PTR_MUT, PTR_CONST, DYN, LT, GT, COMMA, I32, STD}

Malformed ==
    {Raw(join(ts, Empty)) : ts \in UNION {[1..n -> Tokens] : n \in 0..MaxTokens}}

-----------------------------------------------------------------------------
(* The canonicalization run: a caller canonicalizes a descriptor, and may  *)
(* canonicalize the result again.                                          *)

TnIdle == 
    /\ ast = Raw(Empty) /\ input = Empty /\ output = Empty /\ output2 = Empty
    /\ pc = "idle"

TnInit ==
    /\ ast \in WellFormed \cup Malformed
    /\ input = Render(ast)
    /\ output = Empty
    /\ output2 = Empty
    /\ pc = "start"

\* standardized_type_name::<T>() on the descriptor of T (type_name.rs:1-3)
Canonicalize ==
    /\ pc = "start"
    /\ LET r == process_type_name(input)
       IN  /\ output' = r
           /\ pc' = IF r = Panic THEN "panicked" ELSE "once"
    /\ UNCHANGED <<ast, input, output2>>
    /\ UNCHANGED errVars

\* process_type_name applied to its own result
Recanonicalize ==
    /\ pc = "once"
    /\ LET r == process_type_name(output)
       IN  /\ output2' = r
           /\ pc' = IF r = Panic THEN "panicked" ELSE "twice"
    /\ UNCHANGED <<ast, input, output>>
    /\ UNCHANGED errVars

TnNext == Canonicalize \/ Recanonicalize

-----------------------------------------------------------------------------
(* lib.rs: AnyError, its conversion from a native error and its Display.   *)

\* Option<T>: None is the empty sequence, Some(x) the sequence of x alone.
None == << >>
Some(x) == <<x>>

\* struct AnyError { type, context: AnyErrorContext { message, inner_error } }
\* (lib.rs:9-13, 42-45)
AnyError(type, message, inner_error) ==
    [type |-> type,
     context |-> [message |-> message, inner_error |-> inner_error]]

\* A native error: the descriptor of its concrete type and what its Display
\* prints; its source() is the next error of the chain, if any.
NativeError(type_name, message) == [type_name |-> type_name, message |-> message]

\* std::any::type_name::<&dyn Error>(): the type parameter E of the
\* recursive AnyError::from(e) call, e being what source() returns.
REF_DYN_ERROR == AMP \o DYN \o CORE_ERROR_ERROR

\* The type parameter taken from the concrete type of every error of the
\* chain, as if source() returned the concrete error.
type_param_concrete(errors, k) == errors[k].type_name

\* The type parameter of the from call made on the k-th error of the chain.
type_param(errors, k) == IF k = 1 THEN errors[1].type_name ELSE REF_DYN_ERROR

\* from with the recursion over source() cut after the second error.
RECURSIVE from_capped(_, _)
from_capped(errors, k) ==
    AnyError(standardized_type_name_of(type_param(errors, k)),
             errors[k].message,
             IF k < Len(errors) /\ k < 2
             THEN Some(from_capped(errors, k + 1)) ELSE None)

\* impl From<E> for AnyError (lib.rs:14-28), called on the k-th error of
\* the chain
RECURSIVE from(_, _)
from(errors, k) ==
    LET type == standardized_type_name_of(type_param(errors, k))
        message == errors[k].message
        inner_error == IF k < Len(errors) THEN Some(from(errors, k + 1)) ELSE None
    IN  AnyError(type, message, inner_error)

\* fmt writing the parentheses whether or not there is an inner error.
RECURSIVE fmt_always_parenthesized(_)
fmt_always_parenthesized(self) ==
    self.type \o COLON_SP \o self.context.message \o LPAREN
        \o (IF self.context.inner_error # None
            THEN fmt_always_parenthesized(self.context.inner_error[1])
            ELSE Empty)
        \o RPAREN

\* impl Display for AnyError (lib.rs:29-38)
RECURSIVE fmt(_)
fmt(self) ==
    LET head == self.type \o COLON_SP \o self.context.message
    IN  IF self.context.inner_error # None
        THEN head \o LPAREN \o fmt(self.context.inner_error[1]) \o RPAREN
        ELSE head

-----------------------------------------------------------------------------
(* lib.rs: the serde forms the derives of AnyError and AnyErrorContext     *)
(* give, over JSON values.                                                 *)

\* A JSON value: null, a string, a number, an array of values, or an object
\* as the sequence of its entries in document order.
JNull == [t |-> "null", v |-> << >>]
JStr(s) == [t |-> "str", v |-> s]
JNum == [t |-> "num", v |-> << >>]
JArr(items) == [t |-> "arr", v |-> items]
JObj(entries) == [t |-> "obj", v |-> entries]
Entry(k, val) == [k |-> k, val |-> val]

\* The keys of the two structs on the wire: #[serde(rename = "$type")] on
\* type, rename_all = "camelCase" on the others (lib.rs:8-12, 41-44).
KEY_TYPE == "$type"
KEY_CONTEXT == "context"
KEY_MESSAGE == "message"
KEY_INNER_ERROR == "innerError"

\* serialize leaving out an inner_error that is None, as
\* skip_serializing_if = "Option::is_none" would.
RECURSIVE serialize_skipping_none(_)
serialize_skipping_none(self) ==
    LET inner == self.context.inner_error
        message == Entry(KEY_MESSAGE, JStr(self.context.message))
    IN  JObj(<<Entry(KEY_TYPE, JStr(self.type)),
               Entry(KEY_CONTEXT,
                     IF inner = None THEN JObj(<<message>>)
                     ELSE JObj(<<message,
                                 Entry(KEY_INNER_ERROR,
                                       serialize_skipping_none(inner[1]))>>))>>)

\* derive(Serialize) for AnyError and AnyErrorContext (lib.rs:7-13, 40-45):
\* every field, in declaration order; None is null.
RECURSIVE serialize(_)
serialize(self) ==
    LET inner == self.context.inner_error
    IN  JObj(<<Entry(KEY_TYPE, JStr(self.type)),
               Entry(KEY_CONTEXT,
                     JObj(<<Entry(KEY_MESSAGE, JStr(self.context.message)),
                            Entry(KEY_INNER_ERROR,
                                  IF inner = None THEN JNull
                                  ELSE serialize(inner[1]))>>))>>)

\* Result<T, serde_json::Error>
Ok(x) == [ok |-> TRUE, value |-> <<x>>]
Err == [ok |-> FALSE, value |-> << >>]

\* The positions of key k among the entries of an object.
KeyAt(entries, k) == {i \in 1..Len(entries) : entries[i].k = k}

\* String::deserialize
deserialize_string(j) == IF j.t = "str" THEN Ok(j.v) ELSE Err

\* The derived visitor's field lookup in a map: a key given twice is an
\* error (duplicate field), a key the struct does not name is skipped.
\* Yields the entry's value, None when the key is missing, Err on duplicates.
map_field(entries, k) ==
    IF Cardinality(KeyAt(entries, k)) > 1 THEN Err
    ELSE IF KeyAt(entries, k) = {} THEN Ok(None)
    ELSE Ok(Some(entries[Min(KeyAt(entries, k))].val))

\* derive(Deserialize) for AnyError and AnyErrorContext (lib.rs:7-13, 40-45).
\* A struct is read from a map by field name, or from a sequence by field
\* position (the sequence must hold exactly the fields). A missing field is
\* an error, except that a missing Option field of a map is None.
RECURSIVE deserialize(_), deserialize_context(_), deserialize_inner_error(_)

\* deserialize_inner_error never reading the field, as serde(skip) would.
deserialize_inner_error_skipped(j) == Ok(None)

\* Option<Box<AnyError>>::deserialize: null is None, anything else an AnyError
deserialize_inner_error(j) ==
    IF j.t = "null" THEN Ok(None)
    ELSE LET r == deserialize(j)
         IN  IF r.ok THEN Ok(Some(r.value[1])) ELSE Err

deserialize_context(j) ==
    IF j.t = "obj"
    THEN LET m == map_field(j.v, KEY_MESSAGE)
             i == map_field(j.v, KEY_INNER_ERROR)
         IN  IF ~m.ok \/ ~i.ok THEN Err
             ELSE IF m.value[1] = None THEN Err
             ELSE LET message == deserialize_string(m.value[1][1])
                      inner_error == IF i.value[1] = None THEN Ok(None)
                                     ELSE deserialize_inner_error(i.value[1][1])
                  IN  IF ~message.ok \/ ~inner_error.ok THEN Err
                      ELSE Ok([message |-> message.value[1],
                               inner_error |-> inner_error.value[1]])
    ELSE IF j.t = "arr"
    THEN IF Len(j.v) # 2 THEN Err
         ELSE LET message == deserialize_string(j.v[1])
                  inner_error == deserialize_inner_error(j.v[2])
              IN  IF ~message.ok \/ ~inner_error.ok THEN Err
                  ELSE Ok([message |-> message.value[1],
                           inner_error |-> inner_error.value[1]])
    ELSE Err

deserialize(j) ==
    IF j.t = "obj"
    THEN LET t == map_field(j.v, KEY_TYPE)
             c == map_field(j.v, KEY_CONTEXT)
         IN  IF ~t.ok \/ ~c.ok THEN Err
             ELSE IF t.value[1] = None \/ c.value[1] = None THEN Err
             ELSE LET type == deserialize_string(t.value[1][1])
                      context == deserialize_context(c.value[1][1])
                  IN  IF ~type.ok \/ ~context.ok THEN Err
                      ELSE Ok([type |-> type.value[1], context |-> context.value[1]])
    ELSE IF j.t = "arr"
    THEN IF Len(j.v) # 2 THEN Err
         ELSE LET type == deserialize_string(j.v[1])
                  context == deserialize_context(j.v[2])
              IN  IF ~type.ok \/ ~context.ok THEN Err
                  ELSE Ok([type |-> type.value[1], context |-> context.value[1]])
    ELSE Err

-----------------------------------------------------------------------------
(* The payloads a peer may send: the encoding of an AnyError, or that       *)
(* encoding with one field of one nesting level removed or replaced.       *)

Hows == {"drop", "num", "null", "str", "arr", "twice"}
Fields == {KEY_TYPE, KEY_CONTEXT, KEY_MESSAGE, KEY_INNER_ERROR}

\* The value a field is replaced by.
Replacement(val, how) ==
    CASE how = "num" -> JNum
      [] how = "null" -> JNull
      [] how = "str" -> JStr(<<"x">>)
      [] how = "arr" -> IF val.t = "obj"
                        THEN JArr([i \in 1..Len(val.v) |-> val.v[i].val])
                        ELSE JArr(<<val>>)

\* Object j with its entry k removed, given twice, or given another value.
TamperEntry(j, k, how) ==
    LET i == Min(KeyAt(j.v, k))
        before == SubSeq(j.v, 1, i - 1)
        after == SubSeq(j.v, i + 1, Len(j.v))
    IN  CASE how = "drop" -> JObj(before \o after)
          [] how = "twice" -> JObj(before \o <<j.v[i], j.v[i]>> \o after)
          [] OTHER -> JObj(before \o <<Entry(k, Replacement(j.v[i].val, how))>> \o after)

\* The value of entry k of object j.
Get(j, k) == j.v[Min(KeyAt(j.v, k))].val

\* Object j with the value of its entry k replaced by val.
Put(j, k, val) ==
    JObj([i \in 1..Len(j.v) |-> IF j.v[i].k = k THEN Entry(k, val) ELSE j.v[i]])

\* The encoding j of a chain, tampered with at nesting level level.
RECURSIVE Tamper(_, _, _, _)
Tamper(j, level, field, how) ==
    IF level > 1
    THEN Put(j, KEY_CONTEXT,
             Put(Get(j, KEY_CONTEXT), KEY_INNER_ERROR,
                 Tamper(Get(Get(j, KEY_CONTEXT), KEY_INNER_ERROR),
                        level - 1, field, how)))
    ELSE IF field \in {KEY_TYPE, KEY_CONTEXT}
    THEN TamperEntry(j, field, how)
    ELSE Put(j, KEY_CONTEXT, TamperEntry(Get(j, KEY_CONTEXT), field, how))

\* The nesting levels of an encoded chain.
RECURSIVE Levels(_)
Levels(j) ==
    LET inner == Get(Get(j, KEY_CONTEXT), KEY_INNER_ERROR)
    IN  IF inner.t = "null" THEN 1 ELSE 1 + Levels(inner)

Payloads(j) ==
    {j} \cup {Tamper(j, level, field, how) :
                level \in 1..Levels(j), field \in Fields, how \in Hows}

-----------------------------------------------------------------------------
(* The error run: a native error is converted; the AnyError is displayed,  *)
(* or encoded, and a payload is decoded.                                   *)

TYPE_NAMES == {MY_T, STD \o <<"i", "o">> \o COLON2 \o ERROR_ALIAS}
MESSAGES == {<<"a">>, <<"(", "b", ")">>}

NativeErrors == {NativeError(tn, m) : tn \in TYPE_NAMES, m \in MESSAGES}

Chains == UNION {[1..n -> NativeErrors] : n \in 1..MaxChain}

ErrIdle ==
    /\ chain = << >> /\ err = None /\ shown = None /\ wire = None
    /\ payload = None /\ decoded = None /\ epc = "idle"

ErrInit ==
    /\ chain \in Chains
    /\ err = None /\ shown = None /\ wire = None
    /\ payload = None /\ decoded = None
    /\ epc = "start"

\* AnyError::from(value) (lib.rs:15)
Convert ==
    /\ epc = "start"
    /\ err' = Some(from(chain, 1))
    /\ epc' = "converted"
    /\ UNCHANGED <<chain, shown, wire, payload, decoded>>
    /\ UNCHANGED tnVars

\* format!("{}", any_error) (lib.rs:30)
Show ==
    /\ epc = "converted"
    /\ shown' = Some(fmt(err[1]))
    /\ epc' = "shown"
    /\ UNCHANGED <<chain, err, wire, payload, decoded>>
    /\ UNCHANGED tnVars

\* serde_json::to_string(&any_error) (lib.rs:274)
Encode ==
    /\ epc = "converted"
    /\ wire' = Some(serialize(err[1]))
    /\ epc' = "encoded"
    /\ UNCHANGED <<chain, err, shown, payload, decoded>>
    /\ UNCHANGED tnVars

\* A payload arrives: the encoding as sent, or a malformed one.
Receive ==
    /\ epc = "encoded"
    /\ \E p \in Payloads(wire[1]) : payload' = Some(p)
    /\ epc' = "received"
    /\ UNCHANGED <<chain, err, shown, wire, decoded>>
    /\ UNCHANGED tnVars

\* serde_json::from_str::<AnyError>(json) (lib.rs:295)
Decode ==
    /\ epc = "received"
    /\ decoded' = Some(deserialize(payload[1]))
    /\ epc' = "decoded"
    /\ UNCHANGED <<chain, err, shown, wire, payload>>
    /\ UNCHANGED tnVars

ErrNext == Convert \/ Show \/ Encode \/ Receive \/ Decode

-----------------------------------------------------------------------------
(* Specifications.                                                         *)

\* The canonicalizer alone.
InitTypeName == TnInit /\ ErrIdle
SpecTypeName == InitTypeName /\ [][TnNext]_vars

\* The error chain alone.
InitError == TnIdle /\ ErrInit
SpecError == InitError /\ [][ErrNext]_vars

Init == (TnInit /\ ErrIdle) \/ (TnIdle /\ ErrInit)
Next == TnNext \/ ErrNext
Spec == Init /\ [][Next]_vars

-----------------------------------------------------------------------------
(* Properties of the canonicalizer.                                        *)

Canonicalized == pc \in {"once", "twice"}
OnWellFormed == ast.kind # "raw"

\* C1: canonicalization is total: on every input string, the empty, the
\* truncated and the malformed ones included, it returns a string and does
\* not panic.
C1_NeverPanics == pc # "panicked"

\* C2: canonicalization is idempotent on well-formed descriptors:
\* process_type_name(process_type_name(x)) = process_type_name(x).
C2_Idempotent ==
    (OnWellFormed /\ output # Panic /\ pc \in {"twice", "panicked"})
        => (pc = "twice" /\ output2 = output)

\* The name the fixed table or the std::/core::/alloc:: rule gives a base name.
CanonicalName(name) ==
    CASE name = STD_ERROR_ERROR -> ERROR_ALIAS
      [] name = CORE_FMT_DEBUG -> DEBUG_ALIAS
      [] name = CORE_FMT_DISPLAY -> DISPLAY_ALIAS
      [] name = CORE_ANY_ANY -> ANY_ALIAS
      [] OTHER -> IF \/ starts_with(name, STD)
                     \/ starts_with(name, CORE)
                     \/ starts_with(name, ALLOC)
                  THEN SubSeq(name, Max(Occurrences(name, COLON2)) + 3, Len(name))
                  ELSE name

\* The descriptor with every base name replaced by its canonical name and
\* nothing else changed.
RECURSIVE Canonical(_)
Canonical(t) ==
    LET sub == [k \in 1..Len(t.args) |-> Canonical(t.args[k])]
    IN  IF t.kind \in {"base", "generic"}
        THEN Node(t.kind, CanonicalName(t.name), sub)
        ELSE Node(t.kind, t.name, sub)

\* C3: on a well-formed descriptor the output has the shape of the input and
\* differs only in its base names, each replaced by its alias, or by its last
\* segment when rooted at std::, core:: or alloc::, wherever it occurs.
C3_ShapePreserved ==
    (OnWellFormed /\ Canonicalized) => output = Render(Canonical(ast))

\* C9: `*const T` and `*mut T` give the pointer marker, one space, and the
\* canonical form of T.
C9_RawPointer ==
    (ast.kind = "ptr" /\ Canonicalized)
        => output = ast.name \o process_type_name(Render(ast.args[1]))

\* The top-level segments of the argument list of a generic instantiation:
\* the pieces between the commas at bracket depth 0.
TopLevelSegments(text) ==
    generic_params(Slice(text, find(text, LT) + 1, Len(text) - 1))

\* C10: `B<a1, ..., ak>` gives canon_base(B)<canon(a1), ..., canon(ak)>, the
\* arguments split at depth 0 only, in their order, joined by ", ", and the
\* output has as many top-level segments as the input.
C10_GenericInstantiation ==
    (ast.kind = "generic" /\ Canonicalized) =>
        /\ TopLevelSegments(input) =
               [k \in 1..Len(ast.args) |-> Render(ast.args[k])]
        /\ output = process_base_type(ast.name) \o LT
                      \o join([k \in 1..Len(ast.args) |->
                                  process_type_name(Render(ast.args[k]))], COMMA_SP)
                      \o GT
        /\ Len(TopLevelSegments(output)) = Len(TopLevelSegments(input))

\* C11: `[E; N]` gives `[`, the canonical form of E, and `; N]`, whatever
\* well-formed descriptor E is (a path, a generic instantiation, an array),
\* the size text unchanged and nothing lost; an array-like input with no
\* closing `]` is returned unchanged.
C11_FixedSizeArray ==
    /\ (ast.kind = "array" /\ Canonicalized) =>
          output = LBRACK \o process_type_name(Render(ast.args[1]))
                     \o SEMI \o SP \o ast.name \o RBRACK
    /\ (/\ ast.kind = "raw" /\ pc # "start"
        /\ starts_with(input, LBRACK) /\ contains(input, SEMI)
        /\ ~contains(input, RBRACK)) => output = input

-----------------------------------------------------------------------------
(* Properties of the error chain.                                          *)

\* The number of nodes of an AnyError chain.
RECURSIVE NodeCount(_)
NodeCount(e) ==
    IF e.context.inner_error = None THEN 1
    ELSE 1 + NodeCount(e.context.inner_error[1])

\* The k-th node of an AnyError chain, the outermost being the first.
RECURSIVE NodeAt(_, _)
NodeAt(e, k) == IF k = 1 THEN e ELSE NodeAt(e.context.inner_error[1], k - 1)

\* C4: a cause chain of n errors converts to exactly n nodes (nesting depth
\* n - 1); the k-th node carries the display text of the k-th error, every
\* node but the last has a child and the last has none.
C4_ChainPreserved ==
    err # None =>
        LET e == err[1]
            n == Len(chain)
        IN  /\ NodeCount(e) = n
            /\ \A k \in 1..n :
                  /\ NodeAt(e, k).context.message = chain[k].message
                  /\ (NodeAt(e, k).context.inner_error # None) <=> (k < n)

C4_Witness ==
    /\ epc = "converted"
    /\ Len(chain) >= 3
    /\ chain[1].message # chain[2].message
    /\ NodeCount(err[1]) = Len(chain)

\* A payload of the wire shape: an object with one `$type` string and one
\* `context` object, which has one `message` string and one `innerError`
\* that is null or of the same shape.
RECURSIVE WellShaped(_)
WellShaped(j) ==
    /\ j.t = "obj"
    /\ \A k \in {"$type", "context"} : Cardinality(KeyAt(j.v, k)) = 1
    /\ Get(j, "$type").t = "str"
    /\ LET c == Get(j, "context")
       IN  /\ c.t = "obj"
           /\ \A k \in {"message", "innerError"} : Cardinality(KeyAt(c.v, k)) = 1
           /\ Get(c, "message").t = "str"
           /\ \/ Get(c, "innerError").t = "null"
              \/ WellShaped(Get(c, "innerError"))

\* C5: decoding the encoding of a tree succeeds and yields the tree, whatever
\* its depth, type and message strings; a tag the program never produced is
\* decoded like any other.
C5_RoundTrip ==
    epc = "decoded" =>
        /\ payload = wire => decoded[1] = Ok(err[1])
        /\ WellShaped(payload[1]) =>
              /\ decoded[1].ok
              /\ serialize(decoded[1].value[1]) = payload[1]

C5_Witness ==
    /\ epc = "decoded"
    /\ payload = wire
    /\ NodeCount(err[1]) >= 3
    /\ decoded[1].ok
    /\ NodeCount(decoded[1].value[1]) >= 3

\* C6: a payload that, at any nesting level, lacks `$type`, `context`,
\* `context.message` or `context.innerError`, or gives one of them the wrong
\* type, is rejected with a decode error.
C6_MalformedRejected ==
    (epc = "decoded" /\ ~WellShaped(payload[1])) => ~decoded[1].ok

\* The keys of an object, in document order.
Keys(j) == [i \in 1..Len(j.v) |-> j.v[i].k]

\* C7: a node encodes to an object with exactly the keys `$type` and
\* `context`; `context` has exactly the keys `message` and `innerError`;
\* `innerError` is null for a node without child and the encoding of the
\* child otherwise.
RECURSIVE WireShapeOf(_, _)
WireShapeOf(j, e) ==
    /\ j.t = "obj"
    /\ Len(j.v) = 2
    /\ {Keys(j)[i] : i \in 1..2} = {"$type", "context"}
    /\ Get(j, "$type") = JStr(e.type)
    /\ LET c == Get(j, "context")
       IN  /\ c.t = "obj"
           /\ Len(c.v) = 2
           /\ {Keys(c)[i] : i \in 1..2} = {"message", "innerError"}
           /\ Get(c, "message") = JStr(e.context.message)
           /\ IF e.context.inner_error = None
              THEN Get(c, "innerError") = JNull
              ELSE WireShapeOf(Get(c, "innerError"), e.context.inner_error[1])

C7_WireShape == wire # None => WireShapeOf(wire[1], err[1])

C7_Witness ==
    /\ epc = "encoded"
    /\ NodeCount(err[1]) >= 2
    /\ WireShapeOf(wire[1], err[1])

\* n copies of the text s.
RECURSIVE Repeat(_, _)
Repeat(s, n) == IF n = 0 THEN Empty ELSE s \o Repeat(s, n - 1)

\* C8: a node without child renders as `<type>: <message>`; a node with a
\* child as `<type>: <message>(<child>)`: a chain of n nodes renders as the
\* n heads in chain order, each opening a parenthesis for the next, and
\* n - 1 closing parentheses.
C8_DisplayShape ==
    shown # None =>
        LET e == err[1]
            n == NodeCount(e)
            heads == [k \in 1..n |->
                         NodeAt(e, k).type \o <<":", " ">> \o NodeAt(e, k).context.message]
        IN  shown[1] = join(heads, <<"(">>) \o Repeat(<<")">>, n - 1)

C8_Witness ==
    /\ epc = "shown"
    /\ NodeCount(err[1]) >= 3
    /\ shown[1][Len(shown[1])] = ")"


\* The canonical name of the concrete type of a native error of the model:
\* a path of the user's crate is kept whole, a std path keeps its last part.
ConcreteName(e) ==
    IF e.type_name = MY_T THEN <<"m", "y", ":", ":", "T">>
    ELSE <<"E", "r", "r", "o", "r">>

\* C12: in every AnyError produced by from, the root node's type is the
\* canonical name of the concrete error type, and every non-root node carries
\* one and the same type, the canonical form of `&dyn Error`, whatever the
\* concrete type of the cause it was converted from.
C12_InnerTypeIsRefDynError ==
    err # None =>
        /\ err[1].type = ConcreteName(chain[1])
        /\ \A k \in 2..NodeCount(err[1]) :
              NodeAt(err[1], k).type = <<"&", "d", "y", "n", " ", "E", "r", "r", "o", "r">>

C12_Witness ==
    /\ epc = "converted"
    /\ Len(chain) >= 3
    /\ chain[2].type_name # chain[3].type_name
    /\ NodeAt(err[1], 2).type = NodeAt(err[1], 3).type
    /\ NodeAt(err[1], 2).type # ConcreteName(chain[2])
    /\ NodeAt(err[1], 3).type # ConcreteName(chain[3])

=============================================================================
